---- MODULE Spec2Model ----
(***************************************************************************)
(* A model of emby-auto-tags: the rule matcher (rule_service.generate_tags),*)
(* the item state writer (emby_service.update_item_metadata) and the        *)
(* notification path (routers/webhook.receive_webhook, main.webhook_consumer*)
(* and its queue).                                                          *)
(***************************************************************************)
EXTENDS Integers, Sequences, FiniteSets, TLC

VARIABLES
    \* ---- rule_service.generate_tags ----
    rules,           \* the rule list load_rules_from_file returns (rules.json)
    item,            \* the arguments of generate_tags: countries, genre_ids, media_year, item_type
    rule,            \* the loop variable `rule` of the for loop (NoRule before the first iteration)
    idx,             \* the number of loop iterations done
    generated_tags,  \* the local set generated_tags
    pc,              \* position in generate_tags: "idle", "call", "loop", "return"
    \* ---- the media server and emby_service.update_item_metadata ----
    emby,            \* the media server's items: item id -> item_data
    emby_get_calls,  \* item fetches issued (requests.get of line 115)
    emby_post_calls, \* item writes issued (requests.post of line 153)
    upd,             \* the last call of update_item_metadata: arguments, locals, result
    \* ---- routers/webhook.receive_webhook and main.webhook_consumer ----
    webhook_config,  \* the WEBHOOK section config_service.get_config returns
    webhook_queue,   \* webhook.webhook_queue, the asyncio.Queue made at startup
    request,         \* the last notification: token and payload
    response,        \* what receive_webhook answered to it
    requests,        \* notifications received
    processed,       \* the payloads whose automated processing was started, in order
    tmdb_calls,      \* calls of tmdb_service.get_tmdb_details
    \* ---- tmdb_service.get_tmdb_details and its @limits / @on_exception ----
    clock,           \* the time the limiter's clock shows, in ticks
    limiter,         \* the decorator's state: period, last_reset, num_calls
    call_times,      \* the times at which a request was sent to the catalog
    fetch,           \* the last call of get_tmdb_details: attempts made, how it ended
    \* ---- routers/tasks and emby_service.tag_all_media_items ----
    task_manager,    \* app.state.task_manager: task id -> task record
    loop,            \* the bulk tasks the event loop is running: {} or one task id
    bulk,            \* the locals of the running tag_all_media_items
    query,           \* the last status query: the id asked for and the answer
    \* ---- main.webhook_consumer and main.shutdown_event ----
    consumer,        \* the consumer task: its position, the payload it holds (a list
                     \* of none or one), the payloads it attempted, the errors it logged
    unfinished_tasks,\* the queue's count of payloads put and not yet marked done
    shutdown,        \* position in shutdown_event: "none", "join", "cancel", "done"
    \* ---- operations that are checked on their own ----
    listing,         \* the locals of a running get_all_emby_items / get_favorite_emby_items
    derived,         \* catalog details and what each pipeline derives from them
    rule_file        \* the rule-save operation: the request, rules.json, the rules loaded

matcherVars == <<rules, item, rule, idx, generated_tags, pc>>
writerVars == <<emby, emby_get_calls, emby_post_calls, upd>>
hookVars == <<webhook_config, webhook_queue, request, response, requests, processed,
              tmdb_calls>>
limiterVars == <<clock, limiter, call_times, fetch>>
tasksVars == <<task_manager, loop, bulk, query>>
consumerVars == <<consumer, unfinished_tasks, shutdown>>
otherVars == <<listing, derived, rule_file>>
vars == <<rules, item, rule, idx, generated_tags, pc,
          emby, emby_get_calls, emby_post_calls, upd,
          webhook_config, webhook_queue, request, response, requests, processed,
          tmdb_calls,
          clock, limiter, call_times, fetch,
          task_manager, loop, bulk, query,
          consumer, unfinished_tasks, shutdown,
          listing, derived, rule_file>>

-----------------------------------------------------------------------------
(* Bounds and value universes *)

\* the number of rules one evaluation of SpecMatcher iterates over
MaxRules == 2
\* the length of the rule lists SpecPerm permutes
MaxPermLen == 3

\* the length of a tag list: an item's Tags and TagItems, and tags_to_set
MaxTags == 2
\* the number of item fetches in one run of SpecWriter
MaxCalls == 2

\* all sequences over S of length at most n
SeqsUpTo(S, n) == UNION {[1..k -> S] : k \in 0..n}

\* the number of notifications in one run of Spec
MaxRequests == 2

Range(s) == {s[i] : i \in 1..Len(s)}

\* Optional[int]: None, or a one-element tuple holding the year
None == <<>>
Some(y) == <<y>>

Tags == {"T1", "T2"}
RuleCountries == {{}, {"US"}, {"US", "GB"}}
RuleGenreIds == {{}, {28}, {12, 28}}
RuleYears == {{}, {2020}}
RuleItemTypes == {"movie", "series", "all"}

\* every rule document the matcher is tried on
RuleDomain ==
    [tag : Tags, countries : RuleCountries, genre_ids : RuleGenreIds,
     years : RuleYears, item_type : RuleItemTypes,
     match_all_conditions : BOOLEAN, is_negative_match : BOOLEAN]

\* the value of `rule` before the first iteration
NoRule ==
    [tag |-> "", countries |-> {}, genre_ids |-> {}, years |-> {},
     item_type |-> "all", match_all_conditions |-> FALSE, is_negative_match |-> FALSE]

\* the item metadata generate_tags is called with. item_type is "movie" or "tv"
\* from the notification path and "movie" or "series" from the bulk path.
ItemDomain ==
    [countries : {{}, {"US"}}, genre_ids : {{}, {28}},
     media_year : {None, Some(2020), Some(2021)},
     item_type : {"movie", "series", "tv"}]

NoItem == [countries |-> {}, genre_ids |-> {}, media_year |-> None, item_type |-> "movie"]

-----------------------------------------------------------------------------
(* rule_service.generate_tags, one loop iteration (lines 93-167).           *)
(* Country and genre lists are modelled by their sets of elements: the code *)
(* reads them only through set(...) equality and `x in list` membership.    *)

\* a country predicate that ignores match_all_conditions
country_match_any(r, countries) ==
    IF r.countries # {}
    THEN \E c \in countries : c \in r.countries
    ELSE TRUE

country_match(r, countries) ==
    IF r.countries # {}
    THEN IF r.match_all_conditions
         THEN countries = r.countries
         ELSE \E c \in countries : c \in r.countries
    ELSE TRUE

genre_match(r, genre_ids) ==
    IF r.genre_ids # {}
    THEN IF r.match_all_conditions
         THEN genre_ids = r.genre_ids
         ELSE \E gid \in genre_ids : gid \in r.genre_ids
    ELSE TRUE

type_match_negated(r, item_type) ==
    IF r.is_negative_match
    THEN TRUE
    ELSE IF r.item_type = "series"
         THEN item_type = "series" \/ item_type = "tv"
         ELSE r.item_type = "all" \/ r.item_type = item_type

type_match(r, item_type) ==
    IF r.item_type = "series"
    THEN item_type = "series" \/ item_type = "tv"
    ELSE r.item_type = "all" \/ r.item_type = item_type

year_match(r, media_year) ==
    IF r.years # {}
    THEN IF media_year # None
         THEN media_year[1] \in r.years
         ELSE FALSE
    ELSE TRUE

\* the list individual_positive_matches (lines 141-147)
individual_positive_matches(r, it) ==
    (IF r.countries # {} THEN <<country_match(r, it.countries)>> ELSE <<>>)
    \o (IF r.genre_ids # {} THEN <<genre_match(r, it.genre_ids)>> ELSE <<>>)
    \o (IF r.years # {} THEN <<year_match(r, it.media_year)>> ELSE <<>>)

pre_overall_match(r, it) ==
    LET ipm == individual_positive_matches(r, it)
    IN  IF ipm = <<>> THEN FALSE ELSE \A i \in 1..Len(ipm) : ipm[i]

overall_match_excluding_type(r, it) ==
    IF r.is_negative_match THEN ~pre_overall_match(r, it) ELSE pre_overall_match(r, it)

overall_match(r, it) ==
    IF r.item_type # "all"
    THEN overall_match_excluding_type(r, it) /\ type_match(r, it.item_type)
    ELSE overall_match_excluding_type(r, it)

\* line 104: the rule is skipped (continue)
skipped(r) ==
    r.countries = {} /\ r.genre_ids = {} /\ r.years = {} /\ r.item_type = "all"

\* a loop body that stops adding tags once one rule has matched
loop_body_first_match(tags, r, it) ==
    IF skipped(r) THEN tags
    ELSE IF overall_match(r, it) /\ tags = {} THEN tags \cup {r.tag} ELSE tags

\* the effect of one iteration on generated_tags
loop_body(tags, r, it) ==
    IF skipped(r) THEN tags
    ELSE IF overall_match(r, it) THEN tags \cup {r.tag} ELSE tags

\* generate_tags on a whole rule list: the for loop of lines 93-167
RECURSIVE run_loop(_, _, _)
run_loop(tags, rs, it) ==
    IF rs = <<>> THEN tags
    ELSE run_loop(loop_body(tags, Head(rs), it), Tail(rs), it)

generate_tags(rs, it) ==
    IF rs = <<>> THEN {} ELSE run_loop({}, rs, it)

-----------------------------------------------------------------------------
(* Notifications: their payloads, the WEBHOOK configuration, catalog replies *)

\* a payload by the keys receive_webhook reads. Item: the key is absent, holds
\* an empty object, or holds an object with the three fields below.
\* ProviderIds: absent, null, an object without Tmdb, or one with it.
\* Type: absent or the kind. Id: absent ("") or the item id.
Payload(providerIds, type, id) ==
    [Item |-> "dict", ProviderIds |-> providerIds, Type |-> type, Id |-> id]

PayloadDomain ==
    {[Item |-> "absent", ProviderIds |-> "absent", Type |-> "", Id |-> ""],
     [Item |-> "empty", ProviderIds |-> "absent", Type |-> "", Id |-> ""],
     Payload("tmdb", "Movie", "i1"),
     Payload("tmdb", "Series", "i1"),
     Payload("tmdb", "Episode", "i1"),
     Payload("tmdb", "", "i1"),
     Payload("tmdb", "Movie", ""),
     Payload("absent", "Movie", "i1"),
     Payload("no_tmdb", "Movie", "i1"),
     Payload("null", "Movie", "i1")}

Tokens == {"s3cret", "wrong"}

NoRequest == [token |-> "", payload |-> [Item |-> "absent", ProviderIds |-> "absent",
                                         Type |-> "", Id |-> ""]]

\* config_service.get_config()['WEBHOOK']: option values are strings
WebhookConfigDomain ==
    [enabled : {"true", "True", "false"}, secret_token : {"", "s3cret"},
     automation_enabled : {"true", "false"}, write_mode : {"merge", "overwrite"}]

\* config_service.get_config, lines 19-21: the generated default
DefaultWebhookConfig ==
    [enabled |-> "false", secret_token |-> "s3cret", automation_enabled |-> "false",
     write_mode |-> "merge"]

\* str.lower() on the option values above
lower(str) == IF str = "True" THEN "true" ELSE str

\* a receiver that takes every non-empty option value for "enabled"
is_enabled_truthy(cfg) == cfg.enabled # ""

\* webhook.py line 18
is_enabled(cfg) == lower(cfg.enabled) = "true"

\* webhook.py line 25: the token is refused
invalid_token(cfg, token) == cfg.secret_token = "" \/ token # cfg.secret_token

\* webhook.py line 39
automation_enabled(cfg) == lower(cfg.automation_enabled) = "true"

\* webhook.py line 62
media_type_tmdb_of(item_type) ==
    IF item_type = "Movie" THEN "movie" ELSE IF item_type = "Series" THEN "tv" ELSE "None"

\* the date strings of a catalog reply; "" also stands for a missing key
DateStrings == {"", "2020-05-01", "n/a"}

\* date.split('-')[0]
split_first(date) == IF date = "2020-05-01" THEN "2020" ELSE date

\* int(s) raises ValueError unless s is a number
int_raises(str) == str # "2020"
int_of(str) == CASE str = "2020" -> 2020

\* what get_tmdb_details returns for /movie/{id} (release_date) and /tv/{id}
\* (first_air_date); "None" for a failed request, "raise" for an exception
DetailsDomain(media_type) ==
    [genres : {{}, {28}}, production_countries : {{}, {"US"}},
     release_date : IF media_type = "movie" THEN DateStrings ELSE {""},
     first_air_date : IF media_type = "tv" THEN DateStrings ELSE {""}]

\* webhook.py lines 75-83: the date the year is taken from
webhook_date(details, item_type) ==
    IF item_type = "Movie" THEN details.release_date
    ELSE IF item_type = "Series" THEN details.first_air_date
    ELSE ""

\* webhook.py lines 72-87: the arguments generate_tags is called with
webhook_item(details, item_type) ==
    LET date == webhook_date(details, item_type)
    IN  [countries |-> details.production_countries,
         genre_ids |-> details.genres,
         media_year |-> IF date = "" THEN None ELSE Some(int_of(split_first(date))),
         item_type |-> media_type_tmdb_of(item_type)]

\* the rule lists in rules.json during a run of Spec
HookRuleA ==
    [tag |-> "T1", countries |-> {"US"}, genre_ids |-> {}, years |-> {},
     item_type |-> "all", match_all_conditions |-> FALSE, is_negative_match |-> FALSE]
HookRuleB ==
    [tag |-> "T2", countries |-> {}, genre_ids |-> {}, years |-> {2020},
     item_type |-> "movie", match_all_conditions |-> FALSE, is_negative_match |-> FALSE]
HookRuleLists == {<<>>, <<HookRuleA>>, <<HookRuleA, HookRuleB>>}

\* list(generated_tags): the elements of the set in some order
ListsOf(S) == {xs \in SeqsUpTo(S, Cardinality(S)) : Len(xs) = Cardinality(S) /\ Range(xs) = S}

-----------------------------------------------------------------------------
(* The media server's items and emby_service.update_item_metadata           *)

ItemIds == {"i1"}

\* tag names, in the order Python's sorted() gives them
TagOrder == <<"T1", "T2", "old">>
TagUniverse == {TagOrder[i] : i \in 1..Len(TagOrder)}
Rank(t) == CHOOSE i \in 1..Len(TagOrder) : TagOrder[i] = t

\* sorted(xs): the same elements, repeated ones kept, in ascending order
sorted(xs) == SortSeq(xs, LAMBDA a, b : Rank(a) < Rank(b))

\* sorted(list(set(xs)))
sorted_set(xs) == SelectSeq(TagOrder, LAMBDA t : t \in Range(xs))

\* an item as the server returns it: its tags are a tag a rule emits or an
\* older one. A missing "Tags" or "TagItems" key reads
\* like an empty list (lines 124-127). TagItems holds the Name of each tag
\* object, "" for an object without a name.
\* Name stands for the fields of the item that the writer does not compute.
ItemTags == {"T1", "old"}
ItemNames == {"n1"}
ItemDataDomain ==
    [Name : ItemNames,
     Tags : SeqsUpTo(ItemTags, MaxTags),
     TagItems : SeqsUpTo({"", "T1", "old"}, 1),
     LockedFields : {{}, {"Genres", "Tags"}}]

NoItemData == [Name |-> "", Tags |-> <<>>, TagItems |-> <<>>, LockedFields |-> {}]

\* lines 123-127
original_tags_of(item_data) ==
    IF item_data.Tags # <<>>
    THEN item_data.Tags
    ELSE SelectSeq(item_data.TagItems, LAMBDA n : n # "")

\* a merge that keeps repeated entries: sorted(original_tags + tags_to_set)
final_tags_no_dedup(original_tags, tags_to_set, mode) ==
    IF mode = "merge"
    THEN sorted(original_tags \o tags_to_set)
    ELSE sorted(tags_to_set)

\* a writer that sets the requested tags in either mode
final_tags_requested_only(original_tags, tags_to_set, mode) == sorted_set(tags_to_set)

\* lines 129-132
final_tags_of(original_tags, tags_to_set, mode) ==
    IF mode = "merge"
    THEN sorted_set(original_tags \o tags_to_set)
    ELSE sorted_set(tags_to_set)

\* a writer that never takes the tags for unchanged
update_always_needed(final_tags, original_tags) == FALSE

\* line 135
no_update_needed(final_tags, original_tags) ==
    final_tags = sorted(original_tags)

\* a payload built from the tags and the lock list alone
updated_item_data_tags_only(item_data, final_tags) ==
    [Name |-> "",
     Tags |-> final_tags,
     TagItems |-> final_tags,
     LockedFields |-> item_data.LockedFields \ {"Tags"}]

\* lines 139-148: the payload that is posted is the fetched dict, changed in place
updated_item_data(item_data, final_tags) ==
    [item_data EXCEPT !.Tags = final_tags,
                      !.TagItems = final_tags,
                      !.LockedFields = IF "Tags" \in item_data.LockedFields
                                       THEN item_data.LockedFields \ {"Tags"}
                                       ELSE item_data.LockedFields]

\* update_item_metadata was not called yet; its locals exist from a call on
NoCall == [stage |-> "none", result |-> FALSE]

\* what the environment answers during one call: EMBY_SERVER_URL is not
\* configured, _get_user_id returns no id, the GET fails, the POST fails (if one
\* is sent), or every request succeeds
EnvDomain == {"no_url", "no_user", "get_fails", "post_fails", "ok"}

\* update_item_metadata(item_id, tags_to_set, mode), lines 101-162: the record
\* of the call. stage names the return statement it left through.
update_call(server, item_id, tags_to_set, mode, env) ==
    LET item_data == server[item_id]
        original_tags == original_tags_of(item_data)
        final_tags == final_tags_of(original_tags, tags_to_set, mode)
        \* post_data is the json body of the POST, when one is sent
        base == [stage |-> "none", item_id |-> item_id, tags_to_set |-> tags_to_set,
                 mode |-> mode, item_data |-> NoItemData, original_tags |-> <<>>,
                 final_tags |-> <<>>, post_data |-> NoItemData, result |-> FALSE]
        fetched == [base EXCEPT !.item_data = item_data,
                                !.original_tags = original_tags,
                                !.final_tags = final_tags]
    IN  IF env = "no_url" THEN [base EXCEPT !.stage = "no_url"]
        ELSE IF env = "no_user" THEN [base EXCEPT !.stage = "no_user"]
        ELSE IF env = "get_fails" THEN [base EXCEPT !.stage = "get_failed"]
        ELSE IF no_update_needed(final_tags, original_tags)
             THEN [fetched EXCEPT !.stage = "noop", !.result = TRUE]
        ELSE LET post == [fetched EXCEPT !.post_data =
                                      updated_item_data(item_data, final_tags)]
             IN  IF env # "post_fails"
                 THEN [post EXCEPT !.stage = "posted", !.result = TRUE]
                 ELSE [post EXCEPT !.stage = "post_failed"]

\* the stages in which the item was fetched, and in which a write was sent
FetchedStages == {"noop", "posted", "post_failed"}
PostStages == {"posted", "post_failed"}

\* a writer that sends a failed POST a second time
post_requests_retrying(stage) ==
    IF stage = "post_failed" THEN 2 ELSE IF stage = "posted" THEN 1 ELSE 0

\* lines 150-162: the POST requests one call sends
post_requests(stage) == IF stage \in PostStages THEN 1 ELSE 0

\* the effect of the call on the server and on the request counters: the
\* server stores the body of a POST it accepts
ApplyUpdate(call) ==
    /\ upd' = call
    /\ emby_get_calls' =
          emby_get_calls + (IF call.stage \in FetchedStages \cup {"get_failed"} THEN 1 ELSE 0)
    /\ emby_post_calls' = emby_post_calls + post_requests(call.stage)
    /\ emby' = IF call.stage = "posted"
               THEN [emby EXCEPT ![call.item_id] = call.post_data]
               ELSE emby

-----------------------------------------------------------------------------
(* tmdb_service.get_tmdb_details: the catalog client behind                 *)
(* @on_exception(expo, RateLimitException, max_tries=8) and                 *)
(* @limits(calls=1, period=TMDB_RATE_LIMIT_PERIOD)                          *)

\* the last tick of the limiter's clock in a run
MaxClock == 3

\* core/config.py line 63, in ticks; 0 selects the function without decorators
TMDB_RATE_LIMIT_PERIOD == 2

\* tmdb_service.py line 10
max_tries == 8

\* the decorator object: made when the module is imported, at tick 0
NewLimiter(period) == [period |-> period, last_reset |-> 0, num_calls |-> 0]

\* a limiter that lets every call through
limits_pass_unlimited(lim, now) ==
    [limiter |-> [lim EXCEPT !.num_calls = @ + 1], admitted |-> TRUE]

\* one pass through @limits at time `now`: the window is reset once it has
\* elapsed, the attempt is counted, and the call is admitted if it is the first
\* of its window (RateLimitException otherwise)
limits_pass(lim, now) ==
    LET elapsed == lim.period - (now - lim.last_reset) <= 0
        num_calls == (IF elapsed THEN 0 ELSE lim.num_calls) + 1
    IN  [limiter |-> [lim EXCEPT !.last_reset = IF elapsed THEN now ELSE @,
                                 !.num_calls = num_calls],
         admitted |-> num_calls <= 1]

\* a retry loop that gives up one try late
gives_up_late(tries) == tries = max_tries + 1

\* @on_exception: the exception is raised to the caller once max_tries tries failed
gives_up(tries) == tries = max_tries

\* the waits of one call's retries, in ticks: expo with full jitter draws each
\* wait between 0 and the exponential bound. The first `short` waits are
\* shorter than a tick, the later ones a tick long.
Sleeps ==
    {[i \in 1..(max_tries - 1) |-> IF i <= short THEN 0 ELSE 1] : short \in 0..(max_tries - 1)}

\* no wait is drawn by the function without decorators
SleepsFor(lim) == IF lim.period > 0 THEN Sleeps ELSE {[i \in 1..(max_tries - 1) |-> 0]}

\* the wait before the try after `tries`; none is drawn past the last one
sleep_of(sleeps, tries) == IF tries \in DOMAIN sleeps THEN sleeps[tries] ELSE 0

\* the record of a call: whether the request was sent, whether
\* RateLimitException reached the caller, the tries made, the limiter and the
\* clock at its end
RECURSIVE on_exception(_, _, _, _)
on_exception(lim, now, sleeps, tries) ==
    LET pass == limits_pass(lim, now)
    IN  IF pass.admitted
        THEN [issued |-> TRUE, raised |-> FALSE, attempts |-> tries,
              limiter |-> pass.limiter, clock |-> now]
        ELSE IF gives_up(tries)
        THEN [issued |-> FALSE, raised |-> TRUE, attempts |-> tries,
              limiter |-> pass.limiter, clock |-> now]
        ELSE on_exception(pass.limiter, now + sleep_of(sleeps, tries), sleeps, tries + 1)

\* get_tmdb_details up to the request: lines 9-12 with a period, 41-43 without
get_tmdb_details(lim, now, sleeps) ==
    IF lim.period > 0
    THEN on_exception(lim, now, sleeps, 1)
    ELSE [issued |-> TRUE, raised |-> FALSE, attempts |-> 1, limiter |-> lim,
          clock |-> now]

\* the ways one call can go at time `now`, over the waits its retries may draw
FetchResults(lim, now) == {get_tmdb_details(lim, now, sleeps) : sleeps \in SleepsFor(lim)}

NoFetch == [caller |-> "none", issued |-> FALSE, raised |-> FALSE, attempts |-> 0]

\* the call's effect on the limiter, the clock and the log of requests sent
ApplyFetch(caller, call) ==
    /\ call.clock <= MaxClock
    /\ limiter' = call.limiter
    /\ clock' = call.clock
    /\ call_times' = IF call.issued THEN Append(call_times, call.clock) ELSE call_times
    /\ fetch' = [caller |-> caller, issued |-> call.issued, raised |-> call.raised,
                 attempts |-> call.attempts]

\* no limiter is configured and no call was made
LimiterIdle ==
    /\ clock = 0
    /\ limiter = NewLimiter(0)
    /\ call_times = <<>>
    /\ fetch = NoFetch

-----------------------------------------------------------------------------
(* routers/tasks.py and emby_service.tag_all_media_items: the bulk job      *)

\* the bulk jobs started in one run
MaxTasks == 2
\* the items one listing returns
MaxItems == 3

\* uuid4 values: one more than the jobs started, so that one is never issued
TaskIds == 1..(MaxTasks + 1)

\* tasks.py line 38: an id no task has; ids are opaque, so the least unused one
uuid4(tm) == CHOOSE t \in TaskIds \ DOMAIN tm : \A u \in TaskIds \ DOMAIN tm : t <= u

\* tasks.py lines 40-48 (start_time left out); error is "" while the key is absent
NewTask(task_id, mode) ==
    [task_id |-> task_id, status |-> "pending", mode |-> mode, processed_count |-> 0,
     updated_count |-> 0, failed_count |-> 0, error |-> ""]

\* an item of the listing by the keys the bulk run reads: Id, Name, Type,
\* ProviderIds (an object, null, or absent) and ProviderIds.Tmdb ("" if absent)
BulkItem(tmdb, type, name) ==
    [Id |-> "i1", Name |-> name, Type |-> type, ProviderIds |-> "dict", Tmdb |-> tmdb]

\* the listing may name the same title or the same item more than once
BulkItemDomain ==
    {BulkItem("m1", "Movie", "n"),
     BulkItem("m1", "Series", "n"),
     BulkItem("m2", "Movie", "n"),
     BulkItem("m1", "Movie", ""),
     BulkItem("", "Movie", "n"),
     [Id |-> "i1", Name |-> "n", Type |-> "Movie", ProviderIds |-> "null", Tmdb |-> ""]}

NoBulk ==
    [pc |-> "idle", task_id |-> 0, mode |-> "merge", all_items |-> <<>>,
     listing_failed |-> FALSE, order |-> <<>>, pos |-> 0, processed_count |-> 0,
     updated_count |-> 0, failed_count |-> 0, outcomes |-> <<>>]

NoQuery == [task_id |-> 0, answer |-> "none"]

\* lines 366-371: the groups in the order the two nested dicts yield them, as
\* indices into all_items. A group's place is that of its first item; items
\* without a Tmdb id or a Type are left out.
grouped_items(all_items) ==
    LET kept == SelectSeq([i \in 1..Len(all_items) |-> i],
                          LAMBDA i : all_items[i].Tmdb # "" /\ all_items[i].Type # "")
        Min(S) == CHOOSE m \in S : \A n \in S : m <= n
        first_of_id(i) ==
            Min({j \in 1..Len(all_items) : all_items[j].Tmdb = all_items[i].Tmdb
                                           /\ all_items[j].Type # ""})
        first_of_type(i) ==
            Min({j \in 1..Len(all_items) : /\ all_items[j].Tmdb = all_items[i].Tmdb
                                           /\ all_items[j].Type = all_items[i].Type})
        before(a, b) ==
            \/ first_of_id(a) < first_of_id(b)
            \/ first_of_id(a) = first_of_id(b) /\ first_of_type(a) < first_of_type(b)
            \/ /\ first_of_id(a) = first_of_id(b)
               /\ first_of_type(a) = first_of_type(b)
               /\ a < b
    IN  SortSeq(kept, before)

\* line 368: None.get raises AttributeError on an item whose ProviderIds is null
grouping_raises(all_items) ==
    \E i \in 1..Len(all_items) : all_items[i].ProviderIds = "null"

\* what the catalog returns to the bulk run for /movie/{id} and /tv/{id}
BulkDetailsDomain(media_type) ==
    [genres : {{}, {28}}, origin_country : {{}, {"US"}},
     original_language : {"", "en", "xx"},
     release_date : IF media_type = "movie" THEN DateStrings ELSE {""},
     first_air_date : IF media_type = "tv" THEN DateStrings ELSE {""}]

\* lines 455-462: the language table, by the languages the replies use
lang_to_country_map(original_language) ==
    IF original_language = "en" THEN {"US"} ELSE {}

\* lines 444-462
bulk_countries(details) ==
    IF details.origin_country # {} THEN details.origin_country
    ELSE IF details.original_language # "" THEN lang_to_country_map(details.original_language)
    ELSE {}

\* lines 464-472: date[:4] of a date of four characters or more
bulk_year(details, media_type) ==
    LET date == IF media_type = "movie" THEN details.release_date
                ELSE details.first_air_date
    IN  IF date = "2020-05-01" THEN Some(2020) ELSE None

\* lines 442-475: the arguments generate_tags is called with
bulk_item(details, item_type) ==
    [countries |-> bulk_countries(details),
     genre_ids |-> details.genres,
     media_year |-> bulk_year(details, media_type_tmdb_of(item_type)),
     item_type |-> IF item_type = "Movie" THEN "movie"
                   ELSE IF item_type = "Series" THEN "series" ELSE "all"]

\* line 423
missing_key_information(it) ==
    it.Id = "" \/ it.Name = "" \/ it.Type = "" \/ it.Tmdb = ""

\* a run that stops counting after the first item that was not updated
counts_until_failure(b, outcome) ==
    IF b.failed_count > 0 THEN b
    ELSE [b EXCEPT !.processed_count = @ + 1,
                   !.updated_count = @ + (IF outcome = "updated" THEN 1 ELSE 0),
                   !.failed_count = @ + (IF outcome = "updated" THEN 0 ELSE 1)]

\* lines 383-387: the counters after one item
counts_after(b, outcome) ==
    [b EXCEPT !.processed_count = @ + 1,
              !.updated_count = @ + (IF outcome = "updated" THEN 1 ELSE 0),
              !.failed_count = @ + (IF outcome = "updated" THEN 0 ELSE 1)]

\* tasks.py lines 23-25
failed_task(task, e) == [task EXCEPT !.status = "failed", !.error = e]

\* a table that holds the new record only
put_task_alone(tm, task_id, task) == [t \in {task_id} |-> task]

\* tasks.py line 40: task_manager[task_id] = {...}
put_task(tm, task_id, task) ==
    [t \in DOMAIN tm \cup {task_id} |-> IF t = task_id THEN task ELSE tm[t]]

\* tasks.py lines 60-63: the answer to a status query, by the status it shows
task_status(tm, task_id) ==
    IF task_id \in DOMAIN tm THEN tm[task_id].status ELSE "404"

\* a result that reports the task failed if an item failed
completed_task_unless_failures(task, b) ==
    [task EXCEPT !.status = IF b.failed_count > 0 THEN "failed" ELSE "completed",
                 !.processed_count = b.processed_count,
                 !.updated_count = b.updated_count, !.failed_count = b.failed_count,
                 !.mode = b.mode]

\* lines 398-405 and tasks.py lines 20-21: the record after update(result)
completed_task(task, b) ==
    [task EXCEPT !.status = "completed", !.processed_count = b.processed_count,
                 !.updated_count = b.updated_count, !.failed_count = b.failed_count,
                 !.mode = b.mode]

\* no bulk job was started
TasksIdle ==
    /\ task_manager = <<>>
    /\ loop = {}
    /\ bulk = NoBulk
    /\ query = NoQuery

\* the consumer waits in queue.get() and shutdown has not begun
NoConsumer == [pc |-> "get", payload |-> <<>>, attempted |-> <<>>, errors |-> 0]
ConsumerIdle ==
    /\ consumer = NoConsumer
    /\ unfinished_tasks = 0
    /\ shutdown = "none"

\* no listing is running, nothing was derived, no rules were saved: the
\* locals of a function exist from its call on
NoListing == [pc |-> "idle"]
NoDerived == [pc |-> "idle"]
NoRuleFile == [pc |-> "idle"]
OtherIdle ==
    /\ listing = NoListing
    /\ derived = NoDerived
    /\ rule_file = NoRuleFile

WriterIdle ==
    /\ emby = [i \in ItemIds |-> NoItemData]
    /\ emby_get_calls = 0
    /\ emby_post_calls = 0
    /\ upd = NoCall

HookIdle ==
    /\ webhook_config = DefaultWebhookConfig
    /\ webhook_queue = <<>>
    /\ request = NoRequest
    /\ response = "none"
    /\ requests = 0
    /\ processed = <<>>
    /\ tmdb_calls = 0

MatcherIdle ==
    /\ rules = <<>>
    /\ item = NoItem
    /\ rule = NoRule
    /\ idx = 0
    /\ generated_tags = {}
    /\ pc = "idle"

InitWriter ==
    /\ MatcherIdle
    /\ HookIdle
    /\ LimiterIdle
    /\ TasksIdle
    /\ ConsumerIdle
    /\ OtherIdle
    /\ emby \in [ItemIds -> ItemDataDomain]
    /\ emby_get_calls = 0
    /\ emby_post_calls = 0
    /\ upd = NoCall

UpdateItemMetadata ==
    /\ emby_get_calls < MaxCalls
    /\ \E item_id \in ItemIds, tags_to_set \in SeqsUpTo(Tags, MaxTags),
          mode \in {"merge", "overwrite"}, env \in EnvDomain :
          ApplyUpdate(update_call(emby, item_id, tags_to_set, mode, env))
    /\ UNCHANGED matcherVars
    /\ UNCHANGED hookVars
    /\ UNCHANGED <<limiterVars, tasksVars, consumerVars, otherVars>>

NextWriter == UpdateItemMetadata

SpecWriter == InitWriter /\ [][NextWriter]_vars

-----------------------------------------------------------------------------
(* Spec: the notification path. receive_webhook is a coroutine without an   *)
(* await in its body, so each call runs to its return in one step.          *)

\* the handler answers `status` without having touched the catalog or the server
Answer(status) ==
    /\ response' = status
    /\ UNCHANGED <<tmdb_calls, writerVars, limiterVars>>

\* lines 90-107: the tags are written
WriteTags(pl, tags) ==
    IF tags = {}
    THEN /\ response' = "success"
         /\ UNCHANGED writerVars
    ELSE \E tags_to_set \in ListsOf(tags), env \in EnvDomain :
            LET call == update_call(emby, pl.Id, tags_to_set, webhook_config.write_mode, env)
            IN  /\ ApplyUpdate(call)
                /\ response' = IF call.result THEN "success" ELSE "error"

\* lines 67-107: the catalog is asked, the rules evaluated, the tags written
FetchAndTag(pl) ==
    /\ tmdb_calls' = tmdb_calls + 1
    /\ \E call \in FetchResults(limiter, clock) :
              /\ ApplyFetch("webhook", call)
              /\ IF call.raised
                 THEN /\ response' = "error"     \* RateLimitException, caught at line 109
                      /\ UNCHANGED writerVars
                 ELSE \/ /\ response' = "error"     \* the request failed: None
                         /\ UNCHANGED writerVars
                      \/ \E details \in DetailsDomain(media_type_tmdb_of(pl.Type)) :
                            IF int_raises(split_first(webhook_date(details, pl.Type)))
                               /\ webhook_date(details, pl.Type) # ""
                            THEN /\ response' = "error"     \* int() raised ValueError
                                 /\ UNCHANGED writerVars
                            ELSE WriteTags(pl, generate_tags(rules,
                                                             webhook_item(details, pl.Type)))

\* lines 46-111: the automated processing of one payload
ProcessPayload(pl) ==
    IF pl.Item # "dict" THEN Answer("skipped")
    ELSE IF pl.ProviderIds = "null" THEN Answer("error")     \* None.get: AttributeError
    ELSE IF pl.ProviderIds # "tmdb" \/ pl.Type = "" \/ pl.Id = "" THEN Answer("skipped")
    ELSE IF media_type_tmdb_of(pl.Type) = "None" THEN Answer("skipped")
    ELSE FetchAndTag(pl)

\* receive_webhook(token, payload), lines 12-113
ReceiveWebhook ==
    /\ loop = {}
    /\ requests < MaxRequests
    /\ requests' = requests + 1
    /\ \E token \in Tokens, pl \in PayloadDomain :
          /\ request' = [token |-> token, payload |-> pl]
          /\ IF ~is_enabled(webhook_config)
             THEN Answer("403") /\ UNCHANGED processed
             ELSE IF invalid_token(webhook_config, token)
             THEN Answer("401") /\ UNCHANGED processed
             ELSE IF ~automation_enabled(webhook_config)
             THEN Answer("received") /\ UNCHANGED processed
             ELSE /\ processed' = Append(processed, pl)
                  /\ ProcessPayload(pl)
    /\ UNCHANGED <<webhook_config, webhook_queue, rules>>
    /\ UNCHANGED <<item, rule, idx, generated_tags, pc>>
    /\ UNCHANGED <<tasksVars, consumerVars, otherVars>>

Init ==
    /\ rules \in HookRuleLists
    /\ item = NoItem
    /\ rule = NoRule
    /\ idx = 0
    /\ generated_tags = {}
    /\ pc = "idle"
    /\ emby \in [ItemIds -> [Name : {"n1"}, Tags : {<<>>, <<"old">>}, TagItems : {<<>>},
                             LockedFields : {{}, {"Genres", "Tags"}}]]
    /\ emby_get_calls = 0
    /\ emby_post_calls = 0
    /\ upd = NoCall
    /\ webhook_config \in WebhookConfigDomain
    /\ webhook_queue = <<>>
    /\ request = NoRequest
    /\ response = "none"
    /\ requests = 0
    /\ processed = <<>>
    /\ tmdb_calls = 0
    /\ LimiterIdle
    /\ TasksIdle
    /\ ConsumerIdle
    /\ OtherIdle

Next == ReceiveWebhook

Spec == Init /\ [][Next]_vars

-----------------------------------------------------------------------------
(* SpecTasks: the bulk job. _run_tag_all_media_task and all it calls are    *)
(* coroutines that wait on nothing but each other, and their requests are   *)
(* blocking calls, so the event loop runs the task from its first line to   *)
(* its last before it serves anything else. The steps below are the         *)
(* task's blocking calls.                                                   *)

\* POST /tag_all_media, tasks.py lines 38-52
TagAllMedia ==
    /\ loop = {}
    /\ Cardinality(DOMAIN task_manager) < MaxTasks
    /\ \E mode \in {"merge", "overwrite"} :
          task_manager' = put_task(task_manager, uuid4(task_manager),
                                   NewTask(uuid4(task_manager), mode))
    /\ UNCHANGED <<loop, bulk, query>>
    /\ UNCHANGED <<matcherVars, writerVars, hookVars, limiterVars, consumerVars, otherVars>>

\* _run_tag_all_media_task starts: tasks.py line 17, emby_service.py lines 351-354
RunTask ==
    /\ loop = {}
    /\ \E task_id \in DOMAIN task_manager :
          /\ task_manager[task_id].status = "pending"
          /\ task_manager' = [task_manager EXCEPT ![task_id].status = "running"]
          /\ loop' = {task_id}
          /\ bulk' = [NoBulk EXCEPT !.pc = "list", !.task_id = task_id,
                                    !.mode = task_manager[task_id].mode]
    /\ UNCHANGED query
    /\ UNCHANGED <<matcherVars, writerVars, hookVars, limiterVars, consumerVars, otherVars>>

\* get_all_emby_items, lines 165-210: the items of all pages, or [] after a
\* request that failed
GetAllEmbyItems ==
    /\ bulk.pc = "list"
    /\ \/ bulk' = [bulk EXCEPT !.pc = "group", !.listing_failed = TRUE]
       \/ \E all_items \in SeqsUpTo(BulkItemDomain, MaxItems) :
             bulk' = [bulk EXCEPT !.pc = "group", !.all_items = all_items]
    /\ UNCHANGED <<task_manager, loop, query>>
    /\ UNCHANGED <<matcherVars, writerVars, hookVars, limiterVars, consumerVars, otherVars>>

\* lines 361-376: the items are grouped; an exception here leaves
\* tag_all_media_items and is caught in tasks.py line 23
GroupItems ==
    /\ bulk.pc = "group"
    /\ IF grouping_raises(bulk.all_items)
       THEN /\ task_manager' =
                  [task_manager EXCEPT ![bulk.task_id] = failed_task(@, "AttributeError")]
            /\ bulk' = [bulk EXCEPT !.pc = "raised"]
            /\ loop' = {}
       ELSE /\ bulk' = [bulk EXCEPT !.pc = "items",
                                     !.order = grouped_items(bulk.all_items)]
            /\ UNCHANGED <<task_manager, loop>>
    /\ UNCHANGED query
    /\ UNCHANGED <<matcherVars, writerVars, hookVars, limiterVars, consumerVars, otherVars>>

\* the item is counted with `outcome`; nothing was asked of catalog or server
Count(outcome) ==
    /\ bulk' = [counts_after(bulk, outcome) EXCEPT !.pos = @ + 1,
                                                   !.outcomes = Append(@, outcome)]

\* a run that calls the writer with whatever generate_tags returned
BulkWriteTagsAlways(it, tags) ==
    \E tags_to_set \in ListsOf(tags), env \in EnvDomain :
       LET call == update_call(emby, it.Id, tags_to_set, bulk.mode, env)
       IN  /\ ApplyUpdate(call)
           /\ Count(IF call.result THEN "updated" ELSE "write_failed")

\* lines 477-485: the tags are written to the item
BulkWriteTags(it, tags) ==
    IF tags = {}
    THEN Count("no_tags") /\ UNCHANGED writerVars
    ELSE \E tags_to_set \in ListsOf(tags), env \in EnvDomain :
            LET call == update_call(emby, it.Id, tags_to_set, bulk.mode, env)
            IN  /\ ApplyUpdate(call)
                /\ Count(IF call.result THEN "updated" ELSE "write_failed")

\* lines 436-475: the tag sets generate_tags returns over the catalog's replies
BulkTagSets(it) ==
    {generate_tags(rules, bulk_item(details, it.Type)) :
        details \in BulkDetailsDomain(media_type_tmdb_of(it.Type))}

\* one pass of the loops of lines 378-395: _process_single_item_for_tagging
\* (lines 418-489) on the next item, and the counters
ProcessItem ==
    /\ bulk.pc = "items"
    /\ bulk.pos < Len(bulk.order)
    /\ LET it == bulk.all_items[bulk.order[bulk.pos + 1]]
       IN  IF missing_key_information(it)
           THEN /\ Count("skipped")
                /\ UNCHANGED <<writerVars, limiterVars, tmdb_calls>>
           ELSE /\ tmdb_calls' = tmdb_calls + 1
                /\ \E call \in FetchResults(limiter, clock) :
                          /\ ApplyFetch("bulk", call)
                          /\ IF call.raised
                             THEN /\ Count("fetch_raised")     \* caught at line 487
                                  /\ UNCHANGED writerVars
                             ELSE \/ /\ Count("fetch_failed")     \* None, line 437
                                     /\ UNCHANGED writerVars
                                  \/ \E tags \in BulkTagSets(it) :
                                        BulkWriteTags(it, tags)
    /\ UNCHANGED <<task_manager, loop, query>>
    /\ UNCHANGED matcherVars
    /\ UNCHANGED <<webhook_config, webhook_queue, request, response, requests, processed>>
    /\ UNCHANGED <<consumerVars, otherVars>>

\* lines 397-405 and tasks.py lines 20-22: the result is put on the task record
ReturnResult ==
    /\ bulk.pc = "items"
    /\ bulk.pos = Len(bulk.order)
    /\ task_manager' = [task_manager EXCEPT ![bulk.task_id] = completed_task(@, bulk)]
    /\ bulk' = [bulk EXCEPT !.pc = "returned"]
    /\ loop' = {}
    /\ UNCHANGED query
    /\ UNCHANGED <<matcherVars, writerVars, hookVars, limiterVars, consumerVars, otherVars>>

\* GET /tag_all_media/status/{task_id}, tasks.py lines 59-63
GetTagAllMediaStatus ==
    /\ loop = {}
    /\ \E task_id \in TaskIds :
          query' = [task_id |-> task_id, answer |-> task_status(task_manager, task_id)]
    /\ UNCHANGED <<task_manager, loop, bulk>>
    /\ UNCHANGED <<matcherVars, writerVars, hookVars, limiterVars, consumerVars, otherVars>>

\* the settings and rules during a run of SpecTasks: notifications are
\* accepted and answered without automated processing
TasksWebhookConfig ==
    [enabled |-> "true", secret_token |-> "s3cret", automation_enabled |-> "false",
     write_mode |-> "merge"]

\* the items a listing returns during a run of SpecTasks
MaxTaskItems == 1
\* the catalog does not answer during a run of SpecTasks: an item is skipped
\* or its fetch fails
TasksOutcomes == {"skipped", "fetch_failed"}
\* the items its listings return: a complete one, one without a name, one
\* whose ProviderIds is null
TasksItems ==
    {it \in BulkItemDomain : it.Type = "Movie" /\ it.Tmdb \in {"m1", ""}
                             /\ (it.Tmdb = "" => it.ProviderIds = "null")}

InitTasks ==
    /\ rules = <<HookRuleA>>
    /\ item = NoItem
    /\ rule = NoRule
    /\ idx = 0
    /\ generated_tags = {}
    /\ pc = "idle"
    /\ emby = [i \in ItemIds |-> [Name |-> "n1", Tags |-> <<"old">>, TagItems |-> <<>>,
                                   LockedFields |-> {"Genres", "Tags"}]]
    /\ emby_get_calls = 0
    /\ emby_post_calls = 0
    /\ upd = NoCall
    /\ webhook_config = TasksWebhookConfig
    /\ webhook_queue = <<>>
    /\ request = NoRequest
    /\ response = "none"
    /\ requests = 0
    /\ processed = <<>>
    /\ tmdb_calls = 0
    /\ LimiterIdle
    /\ TasksIdle
    /\ ConsumerIdle
    /\ OtherIdle

NextTasks ==
    \/ TagAllMedia
    \/ RunTask
    \/ (GetAllEmbyItems /\ bulk'.all_items \in SeqsUpTo(TasksItems, MaxTaskItems))
    \/ GroupItems
    \/ (ProcessItem /\ bulk'.outcomes[Len(bulk'.outcomes)] \in TasksOutcomes)
    \/ ReturnResult
    \/ GetTagAllMediaStatus

SpecTasks == InitTasks /\ [][NextTasks]_vars

-----------------------------------------------------------------------------
(* SpecBulk: one bulk job over listings of up to MaxItems items             *)

NextBulk ==
    \/ (task_manager = <<>> /\ TagAllMedia)
    \/ RunTask
    \/ GetAllEmbyItems
    \/ GroupItems
    \/ ProcessItem
    \/ ReturnResult

SpecBulk == InitTasks /\ [][NextBulk]_vars

-----------------------------------------------------------------------------
(* SpecLimiter: a bulk job and the notification path behind the limiter of  *)
(* a positive TMDB_RATE_LIMIT_PERIOD                                        *)

\* the items of a listing and the notifications during a run of SpecLimiter
MaxLimiterItems == 2
MaxLimiterRequests == 1

\* the payload of its notifications
LimiterPayload == Payload("tmdb", "Movie", "i1")

\* time passes on the limiter's clock
Tick ==
    /\ clock < MaxClock
    /\ clock' = clock + 1
    /\ UNCHANGED <<limiter, call_times, fetch>>
    /\ UNCHANGED <<matcherVars, writerVars, hookVars, tasksVars, consumerVars, otherVars>>

\* notifications are accepted and processed
LimiterWebhookConfig ==
    [enabled |-> "true", secret_token |-> "s3cret", automation_enabled |-> "true",
     write_mode |-> "merge"]

InitLimiter ==
    /\ rules = <<HookRuleA>>
    /\ item = NoItem
    /\ rule = NoRule
    /\ idx = 0
    /\ generated_tags = {}
    /\ pc = "idle"
    /\ emby = [i \in ItemIds |-> [Name |-> "n1", Tags |-> <<"old">>, TagItems |-> <<>>,
                                   LockedFields |-> {"Genres", "Tags"}]]
    /\ emby_get_calls = 0
    /\ emby_post_calls = 0
    /\ upd = NoCall
    /\ webhook_config = LimiterWebhookConfig
    /\ webhook_queue = <<>>
    /\ request = NoRequest
    /\ response = "none"
    /\ requests = 0
    /\ processed = <<>>
    /\ tmdb_calls = 0
    /\ clock = 0
    /\ limiter = NewLimiter(TMDB_RATE_LIMIT_PERIOD)
    /\ call_times = <<>>
    /\ fetch = NoFetch
    /\ TasksIdle
    /\ ConsumerIdle
    /\ OtherIdle

NextLimiter ==
    \/ Tick
    \/ (task_manager = <<>> /\ TagAllMedia /\ \A t \in DOMAIN task_manager' :
                                                 task_manager'[t].mode = "merge")
    \/ RunTask
    \/ (GetAllEmbyItems /\ bulk'.all_items \in SeqsUpTo({BulkItem("m1", "Movie", "n")},
                                                        MaxLimiterItems))
    \/ GroupItems
    \/ ProcessItem
    \/ ReturnResult
    \/ (requests < MaxLimiterRequests /\ ReceiveWebhook
                                      /\ request' = [token |-> "s3cret",
                                                     payload |-> LimiterPayload])

SpecLimiter == InitLimiter /\ [][NextLimiter]_vars

-----------------------------------------------------------------------------
(* SpecPipelines: one bulk job and the notification path on the same item,  *)
(* each in either write mode, without a limiter                             *)

\* the items of a listing and the notifications during a run of SpecPipelines
MaxPipelineItems == 1
MaxPipelineRequests == 1

\* the items its listings return: a complete one and one without a name
PipelineItems == {BulkItem("m1", "Movie", "n"), BulkItem("m1", "Movie", "")}

\* notifications are accepted and processed, in either write mode
PipelineWebhookConfigs ==
    {[LimiterWebhookConfig EXCEPT !.write_mode = m] : m \in {"merge", "overwrite"}}

InitPipelines ==
    /\ rules \in HookRuleLists
    /\ item = NoItem
    /\ rule = NoRule
    /\ idx = 0
    /\ generated_tags = {}
    /\ pc = "idle"
    /\ emby = [i \in ItemIds |-> [Name |-> "n1", Tags |-> <<"old">>, TagItems |-> <<>>,
                                   LockedFields |-> {"Genres", "Tags"}]]
    /\ emby_get_calls = 0
    /\ emby_post_calls = 0
    /\ upd = NoCall
    /\ webhook_config \in PipelineWebhookConfigs
    /\ webhook_queue = <<>>
    /\ request = NoRequest
    /\ response = "none"
    /\ requests = 0
    /\ processed = <<>>
    /\ tmdb_calls = 0
    /\ LimiterIdle
    /\ TasksIdle
    /\ ConsumerIdle
    /\ OtherIdle

NextPipelines ==
    \/ (task_manager = <<>> /\ TagAllMedia)
    \/ RunTask
    \/ (GetAllEmbyItems /\ bulk'.all_items \in SeqsUpTo(PipelineItems, MaxPipelineItems))
    \/ GroupItems
    \/ ProcessItem
    \/ ReturnResult
    \/ (requests < MaxPipelineRequests /\ ReceiveWebhook
                                       /\ request' = [token |-> "s3cret",
                                                      payload |-> LimiterPayload])

SpecPipelines == InitPipelines /\ [][NextPipelines]_vars

-----------------------------------------------------------------------------
(* SpecConsumer: webhook_consumer(queue) and shutdown_event. receive_webhook *)
(* puts nothing on the queue, so the consumer is run on the queue it is     *)
(* handed: one that holds up to MaxQueue payloads put and not yet taken.    *)

\* the payloads on the queue the consumer is started on
MaxQueue == 2

\* the payloads a queue holds
QueuePayloads == {Payload("tmdb", "Movie", "i1"), Payload("null", "Movie", "i1")}

\* a consumer that leaves its loop when a payload's processing raises
after_exception_stops == "stopped"

\* main.py lines 47-55: after the except and the finally the loop goes round
after_exception == "get"

\* a task_done that does not count the payload as done
task_done_forgotten(n) == n

\* main.py line 55: queue.task_done()
task_done(n) == n - 1

\* a join that returns while payloads are unfinished
join_returns_at_once(n) == TRUE

\* main.py line 79: queue.join() returns once every payload put was marked done
join_returns(n) == n = 0

\* line 48: queue.get() returns the oldest payload
ConsumerGet ==
    /\ loop = {}
    /\ consumer.pc = "get"
    /\ shutdown \in {"none", "join"}
    /\ webhook_queue # <<>>
    /\ consumer' = [consumer EXCEPT !.pc = "process", !.payload = <<Head(webhook_queue)>>]
    /\ webhook_queue' = Tail(webhook_queue)
    /\ UNCHANGED <<unfinished_tasks, shutdown>>
    /\ UNCHANGED <<webhook_config, request, response, requests, processed, tmdb_calls>>
    /\ UNCHANGED <<matcherVars, writerVars, limiterVars, tasksVars, otherVars>>

\* lines 50-55: webhook._process_webhook_payload is looked up and is not an
\* attribute of routers/webhook.py, so the call raises AttributeError; the
\* except logs it and the finally marks the payload done
ConsumerProcess ==
    /\ loop = {}
    /\ consumer.pc = "process"
    /\ consumer' = [consumer EXCEPT !.pc = after_exception, !.payload = <<>>,
                                    !.attempted = @ \o consumer.payload,
                                    !.errors = @ + 1]
    /\ unfinished_tasks' = task_done(unfinished_tasks)
    /\ UNCHANGED <<webhook_queue, shutdown>>
    /\ UNCHANGED <<webhook_config, request, response, requests, processed, tmdb_calls>>
    /\ UNCHANGED <<matcherVars, writerVars, limiterVars, tasksVars, otherVars>>

\* lines 76-84: shutdown_event runs up to its first wait: in queue.join() if
\* payloads are unfinished, else past cancel() in `await task`
ShutdownEvent ==
    /\ loop = {}
    /\ shutdown = "none"
    /\ shutdown' = IF join_returns(unfinished_tasks) THEN "cancel" ELSE "join"
    /\ UNCHANGED <<consumer, unfinished_tasks>>
    /\ UNCHANGED <<matcherVars, writerVars, hookVars, limiterVars, tasksVars, otherVars>>

\* lines 79-84: join() returns and the consumer task is cancelled
JoinReturns ==
    /\ loop = {}
    /\ shutdown = "join"
    /\ join_returns(unfinished_tasks)
    /\ shutdown' = "cancel"
    /\ UNCHANGED <<consumer, unfinished_tasks>>
    /\ UNCHANGED <<matcherVars, writerVars, hookVars, limiterVars, tasksVars, otherVars>>

\* CancelledError is raised in the consumer where it waits, in queue.get()
ConsumerCancelled ==
    /\ loop = {}
    /\ shutdown = "cancel"
    /\ consumer.pc = "get"
    /\ consumer' = [consumer EXCEPT !.pc = "cancelled"]
    /\ UNCHANGED <<unfinished_tasks, shutdown>>
    /\ UNCHANGED <<matcherVars, writerVars, hookVars, limiterVars, tasksVars, otherVars>>

\* lines 85-89: `await task` ends with CancelledError
ShutdownDone ==
    /\ loop = {}
    /\ shutdown = "cancel"
    /\ consumer.pc = "cancelled"
    /\ shutdown' = "done"
    /\ UNCHANGED <<consumer, unfinished_tasks>>
    /\ UNCHANGED <<matcherVars, writerVars, hookVars, limiterVars, tasksVars, otherVars>>

InitConsumer ==
    /\ MatcherIdle
    /\ WriterIdle
    /\ LimiterIdle
    /\ TasksIdle
    /\ webhook_config \in {TasksWebhookConfig, DefaultWebhookConfig}
    /\ webhook_queue \in SeqsUpTo(QueuePayloads, MaxQueue)
    /\ unfinished_tasks = Len(webhook_queue)
    /\ request = NoRequest
    /\ response = "none"
    /\ requests = 0
    /\ processed = <<>>
    /\ tmdb_calls = 0
    /\ consumer = NoConsumer
    /\ shutdown = "none"
    /\ OtherIdle

NextConsumer ==
    \/ ConsumerGet
    \/ ConsumerProcess
    \/ ShutdownEvent
    \/ JoinReturns
    \/ ConsumerCancelled
    \/ ShutdownDone
    \/ ReceiveWebhook

\* the event loop runs every task that is ready: the consumer and, once it
\* was started, shutdown_event
SpecConsumer ==
    /\ InitConsumer
    /\ [][NextConsumer]_vars
    /\ WF_vars(ConsumerGet)
    /\ WF_vars(ConsumerProcess)
    /\ WF_vars(JoinReturns)
    /\ WF_vars(ConsumerCancelled)
    /\ WF_vars(ShutdownDone)

-----------------------------------------------------------------------------
(* SpecMatcher: generate_tags run one iteration at a time, the rule list    *)
(* supplied one rule per iteration.                                         *)

InitMatcher ==
    /\ rules = <<>>
    /\ item \in ItemDomain
    /\ rule = NoRule
    /\ idx = 0
    /\ generated_tags = {}
    /\ pc = "call"
    /\ WriterIdle
    /\ HookIdle
    /\ LimiterIdle
    /\ TasksIdle
    /\ ConsumerIdle
    /\ OtherIdle

\* one iteration of the for loop over the next rule of the list
Iterate ==
    /\ pc \in {"call", "loop"}
    /\ idx < MaxRules
    /\ \E r \in RuleDomain :
          /\ rule' = r
          /\ generated_tags' = loop_body(generated_tags, r, item)
    /\ idx' = idx + 1
    /\ pc' = "loop"
    /\ UNCHANGED <<rules, item>>
    /\ UNCHANGED writerVars
    /\ UNCHANGED hookVars
    /\ UNCHANGED <<limiterVars, tasksVars, consumerVars, otherVars>>

\* the list is exhausted: return list(generated_tags)
Return ==
    /\ pc \in {"call", "loop"}
    /\ pc' = "return"
    /\ UNCHANGED <<rules, item, rule, idx, generated_tags>>
    /\ UNCHANGED writerVars
    /\ UNCHANGED hookVars
    /\ UNCHANGED <<limiterVars, tasksVars, consumerVars, otherVars>>

NextMatcher == Iterate \/ Return

SpecMatcher == InitMatcher /\ [][NextMatcher]_vars

-----------------------------------------------------------------------------
(* SpecPerm: generate_tags called on a whole rule list.                     *)

\* the rules and items SpecPerm draws from: a country condition that the item
\* meets or not, every item_type, both polarities, both tags
PermRules ==
    {r \in RuleDomain : /\ r.countries = {"US"} /\ r.genre_ids = {} /\ r.years = {}
                        /\ ~r.match_all_conditions}
PermItems ==
    {it \in ItemDomain : it.genre_ids = {} /\ it.media_year = None}

InitPerm ==
    /\ rules \in SeqsUpTo(PermRules, MaxPermLen)
    /\ item \in PermItems
    /\ rule = NoRule
    /\ idx = 0
    /\ generated_tags = {}
    /\ pc = "call"
    /\ WriterIdle
    /\ HookIdle
    /\ LimiterIdle
    /\ TasksIdle
    /\ ConsumerIdle
    /\ OtherIdle

\* generate_tags(countries, genre_ids, media_year, item_type) over the loaded list
GenerateTags ==
    /\ pc = "call"
    /\ generated_tags' = generate_tags(rules, item)
    /\ idx' = Len(rules)
    /\ rule' = IF rules = <<>> THEN NoRule ELSE rules[Len(rules)]
    /\ pc' = "return"
    /\ UNCHANGED <<rules, item>>
    /\ UNCHANGED writerVars
    /\ UNCHANGED hookVars
    /\ UNCHANGED <<limiterVars, tasksVars, consumerVars, otherVars>>

NextPerm == GenerateTags

SpecPerm == InitPerm /\ [][NextPerm]_vars

-----------------------------------------------------------------------------
(* SpecListing: the paging loop of get_all_emby_items and                   *)
(* get_favorite_emby_items. The items of a page are counted, not named: the *)
(* loop reads only len(items), len(all_items) and TotalRecordCount.         *)

\* params['Limit']
Limit == 100
\* the pages one call may ask for
MaxPages == 3

ListingFns == {"get_all_emby_items", "get_favorite_emby_items"}
\* what a page may hold and report: nothing, one item, a full page; a total
\* that is zero, reached by a short page, reached by a full page, or beyond
PageItems == {0, 1, Limit}
PageTotals == {0, 1, Limit, Limit + 1, 10 * Limit}

\* lines 203 and 255: the test that leaves the loop
listing_done(items, all_items, total_count) ==
    items = 0 \/ all_items >= total_count

\* lines 184-185 and 236-237: all_items = [], start_index = 0; all_items and
\* items are kept by their lengths
NewListing(fn) ==
    [pc |-> "loop", fn |-> fn, start_index |-> 0, all_items |-> 0, requests |-> 0,
     items |-> 0, total_count |-> 0, failed |-> FALSE]

\* lines 170-188 and 217-240: the function is called and reaches its loop, or
\* returns [] for a missing server url or user id
CallListing ==
    /\ listing.pc \in {"idle", "returned"}
    /\ \E fn \in ListingFns, env \in {"ok", "no_url", "no_user"} :
          listing' = IF env = "no_url" \/ (env = "no_user" /\ fn = "get_favorite_emby_items")
                     THEN [NewListing(fn) EXCEPT !.pc = "returned"]
                     ELSE NewListing(fn)
    /\ UNCHANGED <<derived, rule_file>>
    /\ UNCHANGED <<matcherVars, writerVars, hookVars, limiterVars, tasksVars, consumerVars>>

\* lines 190-208 and 242-258: one pass of the loop, one request
GetPage ==
    /\ listing.pc = "loop"
    /\ listing.requests < MaxPages
    /\ \/ listing' = [listing EXCEPT !.pc = "returned", !.requests = @ + 1,
                                      !.failed = TRUE]     \* RequestException: return []
       \/ \E items \in PageItems, total_count \in PageTotals :
             LET all_items == listing.all_items + items
                 done == listing_done(items, all_items, total_count)
             IN  listing' = [listing EXCEPT
                                !.requests = @ + 1,
                                !.items = items,
                                !.total_count = total_count,
                                !.all_items = all_items,
                                !.pc = IF done THEN "returned" ELSE "loop",
                                !.start_index = IF done THEN @ ELSE @ + Limit]
    /\ UNCHANGED <<derived, rule_file>>
    /\ UNCHANGED <<matcherVars, writerVars, hookVars, limiterVars, tasksVars, consumerVars>>

InitListing ==
    /\ MatcherIdle
    /\ WriterIdle
    /\ HookIdle
    /\ LimiterIdle
    /\ TasksIdle
    /\ ConsumerIdle
    /\ OtherIdle

NextListing ==
    \/ CallListing
    \/ GetPage

SpecListing == InitListing /\ [][NextListing]_vars

-----------------------------------------------------------------------------
(* SpecDerive: what receive_webhook and _process_single_item_for_tagging    *)
(* each derive from one catalog reply, for one item kind and one rule list  *)

\* a reply of the catalog with every key either pipeline reads
CatalogDetails(media_type) ==
    [genres : {{}, {28}},
     production_countries : {{}, {"US"}},
     origin_country : {{}, {"US"}},
     original_language : {"", "en", "xx"},
     release_date : IF media_type = "movie" THEN DateStrings ELSE {""},
     first_air_date : IF media_type = "tv" THEN DateStrings ELSE {""}]

\* webhook.py lines 72-83: int() raises ValueError on a date that is no number
webhook_raises(details, item_type) ==
    /\ webhook_date(details, item_type) # ""
    /\ int_raises(split_first(webhook_date(details, item_type)))

\* both derivations, and the tags generate_tags returns for each
Derive ==
    /\ derived.pc = "start"
    /\ LET d == derived.details
           t == derived.item_type
           raised == webhook_raises(d, t)
           w == IF raised THEN NoItem ELSE webhook_item(d, t)
           b == bulk_item(d, t)
       IN  derived' = [pc |-> "done", details |-> d, item_type |-> t,
                       webhook_raised |-> raised,
                       webhook_item |-> w,
                       webhook_tags |-> IF raised THEN {} ELSE generate_tags(rules, w),
                       bulk_item |-> b,
                       bulk_tags |-> generate_tags(rules, b)]
    /\ UNCHANGED <<listing, rule_file>>
    /\ UNCHANGED <<matcherVars, writerVars, hookVars, limiterVars, tasksVars, consumerVars>>

InitDerive ==
    /\ rules \in HookRuleLists
    /\ item = NoItem
    /\ rule = NoRule
    /\ idx = 0
    /\ generated_tags = {}
    /\ pc = "idle"
    /\ WriterIdle
    /\ HookIdle
    /\ LimiterIdle
    /\ TasksIdle
    /\ ConsumerIdle
    /\ listing = NoListing
    /\ rule_file = NoRuleFile
    /\ \E t \in {"Movie", "Series"} :
          \E d \in CatalogDetails(media_type_tmdb_of(t)) :
             derived = [pc |-> "start", details |-> d, item_type |-> t]

NextDerive == Derive

SpecDerive == InitDerive /\ [][NextDerive]_vars

-----------------------------------------------------------------------------
(* SpecRules: POST /rules (routers/rules.save_all_rules and                 *)
(* rule_service.save_rules_to_file) and rule_service.load_rules_from_file.  *)
(* A rule document is a record of the keys it has; conditions.* are kept    *)
(* flat as in the matcher's rules.                                          *)

\* the rules of one save request
MaxSaved == 1

\* the rule objects a client submits
SubmittedRules ==
    [name : {"r1"}, tag : {"T1"},
     countries : {{}, {"US"}}, genre_ids : {{}, {28}}, years : {{}, {2020}},
     year_range_display : {"", "2020"},
     item_type : {"movie", "all"},
     match_all_conditions : BOOLEAN, is_negative_match : BOOLEAN]

\* dict.get(key, default)
doc_get(doc, key, default) == IF key \in DOMAIN doc THEN doc[key] ELSE default

\* rules.py lines 8-18 and 32: the Rule model keeps the fields it declares
model_dump(r) ==
    [name |-> r.name, tag |-> r.tag,
     countries |-> r.countries, genre_ids |-> r.genre_ids, years |-> r.years,
     item_type |-> r.item_type, match_all_conditions |-> r.match_all_conditions]

\* rule_service.py lines 67-72
rule_to_save(doc) ==
    IF doc_get(doc, "year_range_display", "") # ""
    THEN [doc EXCEPT !.years = {}]
    ELSE doc

\* rule_service.py lines 9-39, for the strings SubmittedRules uses
parse_years_from_string(year_str) == IF year_str = "2020" THEN {2020} ELSE {}

\* rule_service.py lines 51-55
rule_loaded(doc) ==
    IF doc_get(doc, "year_range_display", "") # "" /\ doc_get(doc, "years", {}) = {}
    THEN [doc EXCEPT !.years = parse_years_from_string(doc.year_range_display)]
    ELSE doc

\* rule_service.py lines 94-101: the rule as generate_tags reads the document
rule_read(doc) ==
    [name |-> doc_get(doc, "name", ""),
     tag |-> doc_get(doc, "tag", ""),
     countries |-> doc_get(doc, "countries", {}),
     genre_ids |-> doc_get(doc, "genre_ids", {}),
     years |-> doc_get(doc, "years", {}),
     item_type |-> doc_get(doc, "item_type", "all"),
     match_all_conditions |-> doc_get(doc, "match_all_conditions", FALSE),
     is_negative_match |-> doc_get(doc, "is_negative_match", FALSE)]

\* POST /rules, rules.py lines 27-37: the list is dumped and written, or the
\* write raises IOError and the file is as before
SaveAllRules ==
    /\ rule_file.pc = "idle"
    /\ \E rs \in SeqsUpTo(SubmittedRules, MaxSaved), io \in {"ok", "IOError"} :
          LET rules_data == [i \in 1..Len(rs) |-> model_dump(rs[i])]
              rules_to_save == [i \in 1..Len(rs) |-> rule_to_save(rules_data[i])]
          IN  rule_file' = [pc |-> "saved",
                            submitted |-> rs,
                            saved |-> (io = "ok"),
                            file |-> IF io = "ok" THEN Some(rules_to_save) ELSE None,
                            loaded |-> <<>>]
    /\ UNCHANGED <<listing, derived>>
    /\ UNCHANGED <<matcherVars, writerVars, hookVars, limiterVars, tasksVars, consumerVars>>

\* load_rules_from_file, lines 41-59: [] when there is no file
LoadRulesFromFile ==
    /\ rule_file.pc = "saved"
    /\ rule_file' = [rule_file EXCEPT
                        !.pc = "loaded",
                        !.loaded = IF rule_file.file = None THEN <<>>
                                   ELSE [i \in 1..Len(rule_file.file[1]) |->
                                            rule_loaded(rule_file.file[1][i])]]
    /\ UNCHANGED <<listing, derived>>
    /\ UNCHANGED <<matcherVars, writerVars, hookVars, limiterVars, tasksVars, consumerVars>>

InitRules ==
    /\ MatcherIdle
    /\ WriterIdle
    /\ HookIdle
    /\ LimiterIdle
    /\ TasksIdle
    /\ ConsumerIdle
    /\ OtherIdle

NextRules ==
    \/ SaveAllRules
    \/ LoadRulesFromFile

SpecRules == InitRules /\ [][NextRules]_vars

-----------------------------------------------------------------------------
(* Claims about the rule matcher *)

\* the loop has just evaluated rule' (one step of Iterate)
Iterated == idx' = idx + 1

EmptyConditions(r) == r.countries = {} /\ r.genre_ids = {} /\ r.years = {}

\* C1: an iteration over a rule whose countries, genre_ids and years are all
\* empty never adds a tag to generated_tags, whatever the item, the rule's
\* item_type, is_negative_match and match_all_conditions.
C1_EmptyRuleNeverEmits ==
    [][(Iterated /\ EmptyConditions(rule')) => generated_tags' = generated_tags]_vars

\* all orderings of a rule list
PermutationsOf(rs) ==
    {[i \in 1..Len(rs) |-> rs[p[i]]] : p \in Permutations(1..Len(rs))}

\* C2: generate_tags returns the same tag set on every permutation of the
\* rule list.
C2_OrderIndependent ==
    pc = "return" =>
        \A rs \in PermutationsOf(rules) : generate_tags(rs, item) = generated_tags

\* two rules with different tags of which exactly one matches: an order-dependent
\* matcher would have a chance to differ
C2_Witness ==
    /\ pc = "return"
    /\ Len(rules) >= 2
    /\ rules[1].tag # rules[2].tag
    /\ overall_match(rules[1], item)
    /\ overall_match(rules[2], item)
    /\ generated_tags = Tags

\* the kind predicate as the claim states it
KindPredicate(rule_item_type, item_type) ==
    \/ rule_item_type = "all"
    \/ rule_item_type = item_type
    \/ (rule_item_type = "series" /\ item_type \in {"series", "tv"})

\* C3: a rule whose item_type is not all adds nothing for an item of a
\* non-matching kind, also when is_negative_match is set: the kind check is
\* never inverted.
C3_KindNeverInverted ==
    [][(Iterated /\ ~KindPredicate(rule'.item_type, item.item_type))
          => generated_tags' = generated_tags]_vars

\* a movie rule with is_negative_match and a country condition that does not
\* hold (so the inverted combination is true) was evaluated on a tv item
C3_Witness ==
    /\ idx = 1
    /\ rule.item_type = "movie"
    /\ rule.is_negative_match
    /\ rule.countries # {}
    /\ rule.countries \cap item.countries = {}
    /\ rule.genre_ids = {} /\ rule.years = {}
    /\ item.item_type = "tv"
    /\ generated_tags = {}

\* the match of a rule as the claim states it
ExpectedMatch(r, it) ==
    LET countryP == IF r.match_all_conditions THEN it.countries = r.countries
                    ELSE it.countries \cap r.countries # {}
        genreP   == IF r.match_all_conditions THEN it.genre_ids = r.genre_ids
                    ELSE it.genre_ids \cap r.genre_ids # {}
        yearP    == it.media_year # None /\ it.media_year[1] \in r.years
        populatedMatch ==
            /\ (r.countries # {} => countryP)
            /\ (r.genre_ids # {} => genreP)
            /\ (r.years # {} => yearP)
    IN  (populatedMatch # r.is_negative_match) /\ KindPredicate(r.item_type, it.item_type)

\* C4: for a rule with at least one populated condition, the iteration adds the
\* rule's tag iff (the AND of the populated predicates, inverted under
\* is_negative_match) AND the kind predicate.
C4_MatchSemantics ==
    [][(Iterated /\ ~EmptyConditions(rule'))
          => generated_tags' =
                generated_tags \cup (IF ExpectedMatch(rule', item) THEN {rule'.tag} ELSE {})]_vars

\* a match_all rule with all three conditions populated matched exactly
C4_Witness ==
    /\ idx = 1
    /\ rule.match_all_conditions
    /\ rule.countries = {"US"} /\ item.countries = {"US"}
    /\ rule.genre_ids = {28} /\ item.genre_ids = {28}
    /\ rule.years = {2020} /\ item.media_year = Some(2020)
    /\ rule.item_type = "series" /\ item.item_type = "tv"
    /\ ~rule.is_negative_match
    /\ generated_tags = {rule.tag}

-----------------------------------------------------------------------------
(* Claims about the item state writer (SpecWriter) *)

\* the item's original tags as the writer's contract names them: the flat tag
\* list when it is non-empty, else the names of the tag objects
OriginalTagSet(item_data) ==
    IF item_data.Tags # <<>> THEN Range(item_data.Tags)
    ELSE Range(item_data.TagItems) \ {""}

SortedNoDuplicates(xs) ==
    \A i, j \in 1..Len(xs) : i < j => Rank(xs[i]) < Rank(xs[j])

\* C5: the final tag list is sorted and duplicate-free; in merge mode it holds
\* exactly the original and the requested tags, in overwrite mode exactly the
\* requested tags; a write that succeeds stores it on the server.
C5_FinalTags ==
    upd.stage \in FetchedStages =>
        /\ SortedNoDuplicates(upd.final_tags)
        /\ upd.mode = "merge" =>
              Range(upd.final_tags) = OriginalTagSet(upd.item_data) \cup Range(upd.tags_to_set)
        /\ upd.mode = "overwrite" => Range(upd.final_tags) = Range(upd.tags_to_set)
        /\ upd.stage = "posted" => emby[upd.item_id].Tags = upd.final_tags

\* a merge of an unsorted original list with a repeated requested tag was written
C5_Witness ==
    /\ upd.stage = "posted"
    /\ upd.mode = "merge"
    /\ upd.item_data.Tags = <<"old", "T1">>
    /\ upd.tags_to_set = <<"T2", "T2">>
    /\ upd.final_tags = <<"T1", "T2", "old">>

\* update_item_metadata has just fetched the item (one step of the call)
Fetched == emby_get_calls' = emby_get_calls + 1 /\ upd'.stage \in FetchedStages

\* C6: whenever the final tag set equals the original tag set as sets (order
\* and repeated entries of the fetched list ignored), the call returns success
\* and sends no POST.
C6_NoWriteWhenSetsEqual ==
    [][(Fetched /\ Range(upd'.final_tags) = OriginalTagSet(upd'.item_data))
          => (upd'.result /\ emby_post_calls' = emby_post_calls)]_vars

-----------------------------------------------------------------------------
(* Claims about the notification path (Spec) *)

\* receive_webhook has just handled request'
Received == requests' = requests + 1

\* the notification passes the token check and automation is switched on
Authorized ==
    /\ webhook_config.enabled \in {"true", "True"}
    /\ webhook_config.secret_token # ""
    /\ request'.token = webhook_config.secret_token
    /\ webhook_config.automation_enabled = "true"

\* the payload lacks the item, the provider id, the kind or the item id, or its
\* kind is neither Movie nor Series
IncompletePayload(pl) ==
    \/ pl.Item # "dict"
    \/ pl.ProviderIds # "tmdb"
    \/ pl.Type \notin {"Movie", "Series"}
    \/ pl.Id = ""

\* an authorized notification about a Movie or Series item with all its ids
ValidNotification == Authorized /\ ~IncompletePayload(request'.payload)

NoUpstreamCall ==
    /\ tmdb_calls' = tmdb_calls
    /\ emby_get_calls' = emby_get_calls
    /\ emby_post_calls' = emby_post_calls
    /\ emby' = emby

\* C7: accepting a valid notification only pushes the raw payload onto the
\* queue: no metadata fetch, no rule evaluation and no item write happens
\* before receive_webhook has returned.
C7_AcceptOnlyEnqueues ==
    [][(Received /\ ValidNotification)
          => (/\ webhook_queue' = Append(webhook_queue, request'.payload)
              /\ NoUpstreamCall)]_vars

\* C8: payloads are processed in the order in which they were enqueued, one at
\* a time: the processing of a payload starts only by taking the payload at the
\* head of the queue.
C8_ProcessedInQueueOrder ==
    [][processed' # processed
          => (/\ webhook_queue # <<>>
              /\ processed' = Append(processed, Head(webhook_queue))
              /\ webhook_queue' = Tail(webhook_queue))]_vars

\* the receiver is disabled, the secret token is missing, or the token differs
MustReject ==
    \/ webhook_config.enabled = "false"
    \/ webhook_config.secret_token = ""
    \/ request'.token # webhook_config.secret_token

\* C9: a notification is rejected, with no enqueue, no metadata fetch and no
\* item write, whenever the receiver is disabled, the secret token is missing or
\* the supplied token differs from it.
C9_RejectedDoesNothing ==
    [][(Received /\ MustReject)
          => (/\ response' \in {"401", "403"}
              /\ webhook_queue' = webhook_queue
              /\ processed' = processed
              /\ NoUpstreamCall)]_vars

\* a wrong token was refused by an enabled receiver with automation switched on
C9_Witness ==
    /\ requests >= 1
    /\ response = "401"
    /\ webhook_config.enabled = "True"
    /\ webhook_config.automation_enabled = "true"
    /\ webhook_config.secret_token = "s3cret"
    /\ request.token = "wrong"
    /\ request.payload = Payload("tmdb", "Movie", "i1")
    /\ tmdb_calls = 0

\* C10: an authorized notification with an incomplete payload ends as skipped,
\* with no metadata fetch and no item write.
C10_IncompleteIsSkipped ==
    [][(Received /\ Authorized /\ IncompletePayload(request'.payload))
          => (response' = "skipped" /\ NoUpstreamCall)]_vars

-----------------------------------------------------------------------------
(* Claims about the bulk job *)

\* the outcomes of an item whose catalog fetch failed
FetchFailed == {"fetch_failed", "fetch_raised"}

\* the run of tag_all_media_items has ended
BulkEnded == bulk.pc \in {"returned", "raised"}

\* every item of the listing carries what a catalog fetch needs, and every
\* item processed either failed at the fetch or was tagged and written
FetchFailsOrUpdates ==
    /\ \A i \in 1..Len(bulk.all_items) :
          /\ bulk.all_items[i].ProviderIds = "dict"
          /\ ~missing_key_information(bulk.all_items[i])
    /\ \A i \in 1..Len(bulk.outcomes) : bulk.outcomes[i] \in FetchFailed \cup {"updated"}

\* C11: a bulk run over n items in which the fetch fails for the items of F and
\* every other item is tagged and written ends completed with processed = n,
\* failed = |F|, updated = n - |F|, every item having been processed
C11_BulkCountsEveryItem ==
    (BulkEnded /\ FetchFailsOrUpdates) =>
        LET n == Len(bulk.all_items)
            F == {i \in 1..Len(bulk.outcomes) : bulk.outcomes[i] \in FetchFailed}
            task == task_manager[bulk.task_id]
        IN  /\ Len(bulk.outcomes) = n
            /\ task.status = "completed"
            /\ task.processed_count = n
            /\ task.failed_count = Cardinality(F)
            /\ task.updated_count = n - Cardinality(F)

\* C11 witness: three items, the fetch of the second failed, the others were
\* written, and the task shows 3 / 2 / 1
C11_Witness ==
    /\ bulk.pc = "returned"
    /\ bulk.outcomes = <<"updated", "fetch_failed", "updated">>
    /\ task_manager[bulk.task_id].status = "completed"
    /\ task_manager[bulk.task_id].processed_count = 3
    /\ task_manager[bulk.task_id].updated_count = 2
    /\ task_manager[bulk.task_id].failed_count = 1

\* the status changes a task record may show in one step
StatusMoves ==
    {<<"pending", "running">>, <<"running", "completed">>, <<"running", "failed">>}

\* the run has attempted every item and returns in this step
AllItemsAttempted ==
    /\ bulk.pc = "items"
    /\ bulk.pos = Len(bulk.order)
    /\ bulk'.pc # "items"

\* C12: a task's status only moves pending -> running -> completed or failed,
\* a new task starts pending, and a run that attempted every item ends
\* completed whatever the items' outcomes
C12_StatusMoves ==
    [][/\ \A t \in DOMAIN task_manager \cap DOMAIN task_manager' :
             \/ task_manager'[t].status = task_manager[t].status
             \/ <<task_manager[t].status, task_manager'[t].status>> \in StatusMoves
       /\ \A t \in DOMAIN task_manager' \ DOMAIN task_manager :
             task_manager'[t].status = "pending"
       /\ AllItemsAttempted => task_manager'[bulk.task_id].status = "completed"]_vars

\* C12 witness: a task is completed although an item of its run failed, and a
\* later task has been started
C12_Witness ==
    \E t, u \in DOMAIN task_manager :
        /\ task_manager[t].status = "completed"
        /\ task_manager[t].failed_count > 0
        /\ task_manager[u].status = "running"

\* C13: a bulk run whose listing failed ends failed, with an error detail
C13_ListingFailureFailsTask ==
    (bulk.listing_failed /\ BulkEnded) =>
        /\ task_manager[bulk.task_id].status = "failed"
        /\ task_manager[bulk.task_id].error # ""

\* C14: no step removes a task record, and a status query is answered with the
\* record of the id if it was created and with 404 if it never was
C14_TasksAreRetained ==
    [][/\ DOMAIN task_manager \subseteq DOMAIN task_manager'
       /\ query' # query =>
             IF query'.task_id \in DOMAIN task_manager
             THEN query'.answer = task_manager[query'.task_id].status
             ELSE query'.answer = "404"]_vars

\* C14 witness: two tasks were created, the first has finished, and a query
\* for it was answered from its record
C14_Witness ==
    /\ Cardinality(DOMAIN task_manager) = 2
    /\ query.task_id \in DOMAIN task_manager
    /\ query.answer = "completed"
    /\ \E u \in DOMAIN task_manager : task_manager[u].status = "pending"

\* C17: while a bulk task is running, a notification can be received and answered
C17_AcceptNeverWaits ==
    ((\E t \in DOMAIN task_manager : task_manager[t].status = "running")
     /\ requests < MaxLimiterRequests) => ENABLED ReceiveWebhook

-----------------------------------------------------------------------------
(* Claims about the catalog client *)

\* the requests sent in the limiter's current window
SentInWindow == {i \in 1..Len(call_times) : call_times[i] >= limiter.last_reset}

CallsCatalog == tmdb_calls' = tmdb_calls + 1

\* C16: a rate-limited fetch is retried, makes at most max_tries tries, and
\* raises only after the last one; the bulk run then counts the item as failed
\* and stays in its loop, and the notification path answers "error"
C16_RetriesThenSurfaces ==
    [][CallsCatalog =>
          /\ fetch'.attempts \in 1..max_tries
          /\ fetch'.raised => (fetch'.attempts = max_tries /\ ~fetch'.issued)
          /\ (fetch'.raised /\ fetch'.caller = "bulk") =>
                /\ bulk'.failed_count = bulk.failed_count + 1
                /\ bulk'.processed_count = bulk.processed_count + 1
                /\ bulk'.pc = "items"
                /\ bulk'.pos = bulk.pos + 1
          /\ (fetch'.raised /\ fetch'.caller = "webhook") =>
                (response' = "error" /\ loop' = {})]_vars

\* C16 witness: the fetch of one item raised after its last try, a later item
\* was fetched after a retry and written, and the task completed
C16_Witness ==
    /\ bulk.pc = "returned"
    /\ bulk.outcomes = <<"fetch_raised", "updated">>
    /\ fetch.attempts \in 2..max_tries
    /\ task_manager[bulk.task_id].status = "completed"
    /\ task_manager[bulk.task_id].failed_count = 1

-----------------------------------------------------------------------------
(* Claims about the consumer and shutdown *)

\* C18: every payload on the queue is in the end taken and its processing
\* attempted although the attempts before it raised, and the consumer leaves
\* its loop only when shutdown cancels it
C18_EveryPayloadAttempted ==
    /\ \A n \in 0..MaxQueue :
          (unfinished_tasks = n /\ consumer.attempted = <<>>)
              ~> (Len(consumer.attempted) = n /\ consumer.errors = n)
    /\ [][(consumer.pc \in {"get", "process"} /\ consumer'.pc \notin {"get", "process"})
             => (shutdown = "cancel" /\ consumer'.pc = "cancelled")]_vars

\* C18 witness: two payloads were taken and attempted, each attempt raised,
\* and the consumer is back in queue.get()
C18_Witness ==
    /\ Len(consumer.attempted) = 2
    /\ consumer.errors = 2
    /\ consumer.pc = "get"
    /\ shutdown = "none"

\* shutdown_event calls cancel() in this step
Cancels == shutdown # "cancel" /\ shutdown' = "cancel"

\* C19: when the consumer is cancelled the queue is empty, no payload is held
\* by the consumer and none is unfinished; a payload that was taken is never
\* dropped by the cancellation
C19_CancelledBetweenPayloads ==
    [][/\ Cancels => (/\ webhook_queue = <<>>
                      /\ consumer.pc = "get"
                      /\ consumer.payload = <<>>
                      /\ unfinished_tasks = 0)
       /\ consumer.pc = "process" => consumer'.pc # "cancelled"]_vars

\* C19 witness: shutdown began while payloads were unfinished, and the
\* consumer was cancelled after both were attempted
C19_Witness ==
    /\ consumer.pc = "cancelled"
    /\ Len(consumer.attempted) = 2
    /\ webhook_queue = <<>>

-----------------------------------------------------------------------------
(* Claims about the writer's payload, lock list and requests (SpecWriter) *)

\* update_item_metadata has just sent a POST (one step of the call)
Posted == emby_post_calls' # emby_post_calls

\* the keys of the item that the writer does not compute
OtherFields(item_data) == DOMAIN item_data \ {"Tags", "TagItems", "LockedFields"}

\* C21: whenever a write is submitted, it is one POST whose body is the item
\* just fetched with Tags and TagItems replaced by the final tag list and Tags
\* taken out of LockedFields; every other field and every other entry of
\* LockedFields is as fetched.
C21_PostedPayloadFrame ==
    [][Posted =>
          /\ emby_post_calls' = emby_post_calls + 1
          /\ upd'.item_data = emby[upd'.item_id]
          /\ DOMAIN upd'.post_data = DOMAIN upd'.item_data
          /\ upd'.post_data.Tags = upd'.final_tags
          /\ upd'.post_data.TagItems = upd'.final_tags
          /\ upd'.post_data.LockedFields = upd'.item_data.LockedFields \ {"Tags"}
          /\ \A f \in OtherFields(upd'.item_data) :
                upd'.post_data[f] = upd'.item_data[f]]_vars

\* C21 witness: a write was sent for an item with a name and a locked Tags
\* field, and its body keeps the name and the other lock
C21_Witness ==
    /\ upd.stage \in PostStages
    /\ upd.item_data.Name = "n1"
    /\ upd.item_data.LockedFields = {"Genres", "Tags"}
    /\ upd.post_data.Name = "n1"
    /\ upd.post_data.LockedFields = {"Genres"}

\* C22: once an apply that wrote has returned, an item whose lock list held
\* Tags before the apply holds Tags in its lock list on the server again
C22_LockRestored ==
    (upd.stage = "posted" /\ "Tags" \in upd.item_data.LockedFields)
        => "Tags" \in emby[upd.item_id].LockedFields

\* C23: one call sends at most one item fetch and at most one write; a failed
\* fetch returns false without a write; a failed write returns false after
\* exactly one POST and leaves the item as it was
C23_OneFetchOneWrite ==
    [][/\ emby_get_calls' <= emby_get_calls + 1
       /\ emby_post_calls' <= emby_post_calls + 1
       /\ upd'.stage = "get_failed" =>
             (~upd'.result /\ emby_post_calls' = emby_post_calls /\ emby' = emby)
       /\ upd'.stage = "post_failed" =>
             (~upd'.result /\ emby_post_calls' = emby_post_calls + 1 /\ emby' = emby)]_vars

\* C23 witness: a call whose only POST failed has returned false
C23_Witness ==
    /\ upd.stage = "post_failed"
    /\ ~upd.result
    /\ emby_get_calls = 1
    /\ emby_post_calls = 1

\* the call that follows has the arguments of the one that has just returned
SameApply ==
    /\ upd'.item_id = upd.item_id
    /\ upd'.tags_to_set = upd.tags_to_set
    /\ upd'.mode = upd.mode

\* C24: the apply that follows a successful write with the same item, tags and
\* mode sends no POST and leaves the item as it is, and returns success once
\* it has fetched the item
C24_SecondApplyIsNoOp ==
    [][(upd.stage = "posted" /\ SameApply) =>
          /\ emby_post_calls' = emby_post_calls
          /\ emby' = emby
          /\ upd'.stage \in FetchedStages => (upd'.stage = "noop" /\ upd'.result)]_vars

\* C24 witness: after one write of the tags T1 and T2, a second apply of them
\* fetched the item and returned success without a write
C24_Witness ==
    /\ upd.stage = "noop"
    /\ upd.result
    /\ upd.tags_to_set = <<"T2", "T1">>
    /\ upd.item_data.Tags = <<"T1", "T2">>
    /\ emby_get_calls = 2
    /\ emby_post_calls = 1

-----------------------------------------------------------------------------
(* Claims about the task record during a run (SpecBulk) *)

\* C25: while a task is running, the counters of its record are the numbers of
\* items the run has handled so far
C25_CountersGrowDuringRun ==
    \A t \in DOMAIN task_manager :
        (task_manager[t].status = "running" /\ bulk.task_id = t) =>
            /\ task_manager[t].processed_count = bulk.processed_count
            /\ task_manager[t].updated_count = bulk.updated_count
            /\ task_manager[t].failed_count = bulk.failed_count

-----------------------------------------------------------------------------
(* Claims about the item enumeration (SpecListing) *)

\* C26: the loop asks for one more page only after a full page that left the
\* collected count below the reported total: a page with fewer than Limit
\* items, or one that brings the count up to the total, is the last one
C26_StopsOnShortPage ==
    (listing.pc = "loop" /\ listing.requests > 0) =>
        (listing.items = Limit /\ listing.all_items < listing.total_count)

-----------------------------------------------------------------------------
(* Claims about the two pipelines (SpecDerive) *)

\* C27: from the same catalog reply, item kind and rule list, the
\* notification pipeline and the bulk pipeline derive the same countries, the
\* same genres and the same year, and get the same tags from generate_tags
C27_PipelinesAgree ==
    derived.pc = "done" =>
        /\ ~derived.webhook_raised
        /\ derived.webhook_item.countries = derived.bulk_item.countries
        /\ derived.webhook_item.genre_ids = derived.bulk_item.genre_ids
        /\ derived.webhook_item.media_year = derived.bulk_item.media_year
        /\ derived.webhook_tags = derived.bulk_tags

-----------------------------------------------------------------------------
(* Claims about the rule store (SpecRules) *)

\* the fields a rule is evaluated by, and its name
RuleFields ==
    {"name", "tag", "countries", "genre_ids", "years", "item_type",
     "match_all_conditions", "is_negative_match"}

\* C28: the rules loaded after a successful save are as many as were
\* submitted, and each reads, field by field, as the rule submitted in its place
C28_SaveLoadRoundTrip ==
    (rule_file.pc = "loaded" /\ rule_file.saved) =>
        /\ Len(rule_file.loaded) = Len(rule_file.submitted)
        /\ \A i \in 1..Len(rule_file.loaded) :
              \A f \in RuleFields :
                 rule_read(rule_file.loaded[i])[f] = rule_file.submitted[i][f]

-----------------------------------------------------------------------------
(* Claims about the writer as the two pipelines call it (SpecPipelines) *)

\* the bulk run has just passed one item (one step of ProcessItem)
ItemProcessed == Len(bulk'.outcomes) = Len(bulk.outcomes) + 1
LastOutcome == bulk'.outcomes[Len(bulk'.outcomes)]

\* update_item_metadata was called in this step
WriterCalled == upd' # upd \/ emby_get_calls' # emby_get_calls

\* C29: handling one item or one payload sends at most one item fetch and
\* one write; the writer is called only after the catalog was asked and
\* answered, and only with a non-empty tag list; an item of the bulk run
\* that is skipped, whose fetch fails or that gets no tag leaves the server
\* untouched, and one that gets no tag is counted as failed; with no rule to
\* match, nothing is fetched from or written to the server
C29_WriterOnlyWithTags ==
    [][(ItemProcessed \/ Received) =>
          /\ emby_get_calls' <= emby_get_calls + 1
          /\ emby_post_calls' <= emby_post_calls + 1
          /\ WriterCalled =>
                /\ upd'.tags_to_set # <<>>
                /\ tmdb_calls' = tmdb_calls + 1
                /\ fetch'.issued /\ ~fetch'.raised
          /\ (ItemProcessed /\ LastOutcome \in {"skipped", "fetch_raised",
                                                "fetch_failed", "no_tags"}) =>
                (emby' = emby /\ emby_get_calls' = emby_get_calls
                              /\ emby_post_calls' = emby_post_calls)
          /\ (ItemProcessed /\ LastOutcome = "no_tags") =>
                (bulk'.failed_count = bulk.failed_count + 1
                    /\ bulk'.updated_count = bulk.updated_count)
          /\ rules = <<>> =>
                (emby' = emby /\ emby_get_calls' = emby_get_calls
                              /\ emby_post_calls' = emby_post_calls)]_vars

\* C29 witness: with a rule on file, an overwrite run passed an item that got
\* no tag and counted it as failed, a notification in overwrite mode was
\* answered, and the item was neither fetched nor changed
C29_Witness ==
    /\ rules # <<>>
    /\ bulk.pc = "returned"
    /\ bulk.mode = "overwrite"
    /\ bulk.outcomes = <<"no_tags">>
    /\ \A t \in DOMAIN task_manager : task_manager[t].failed_count = 1
    /\ webhook_config.write_mode = "overwrite"
    /\ requests = 1
    /\ response = "success"
    /\ emby_get_calls = 0
    /\ emby["i1"].Tags = <<"old">>

\* a merge apply has just returned success (one step of the writer)
MergeApplied ==
    /\ emby_get_calls' = emby_get_calls + 1
    /\ upd'.mode = "merge"
    /\ upd'.result

\* C30: a merge apply that succeeds works on the item as the server holds it
\* when the apply starts, and leaves on the server exactly the tags the item
\* had then and the tags requested; so no apply of this process undoes the
\* tags another one wrote
C30_NoLostUpdate ==
    [][MergeApplied =>
          /\ upd'.item_data = emby[upd'.item_id]
          /\ Range(emby'[upd'.item_id].Tags) =
                OriginalTagSet(emby[upd'.item_id]) \cup Range(upd'.tags_to_set)]_vars

\* C30 witness: a bulk run and a notification, both in merge mode, each
\* wrote a different tag to the same item, and the item holds both and its
\* original tag
C30_Witness ==
    /\ bulk.mode = "merge"
    /\ bulk.outcomes = <<"updated">>
    /\ webhook_config.write_mode = "merge"
    /\ requests = 1
    /\ response = "success"
    /\ emby_post_calls = 2
    /\ emby["i1"].Tags = <<"T1", "T2", "old">>

====
